---- MODULE Spec2Model ----
(***************************************************************************)
(* DCT-domain image steganography (src/main.py, class DCTSteganography).   *)
(*                                                                         *)
(* Numbers.  The source computes the transforms in floating point.  Here   *)
(* a real number r is the integer round(r * Unit); the two passes of a     *)
(* separable transform use a 20-bit and a 12-bit cosine table so that      *)
(* every product stays inside the 32-bit integers of the model checker.    *)
(* The cover rasters of Covers are chosen so that every rounding and       *)
(* truncation the source performs is decided by a margin far above the     *)
(* fixed-point error (about 1e-4 of a coefficient).                        *)
(***************************************************************************)
EXTENDS Integers, Sequences, FiniteSets, TLC

(***************************************************************************)
(* Program constants                                                       *)
(***************************************************************************)
quantization_table ==
  << <<16, 11, 10, 16, 24, 40, 51, 61>>,    <<12, 12, 14, 19, 26, 58, 60, 55>>,
     <<14, 13, 16, 24, 40, 57, 69, 56>>,    <<14, 17, 22, 29, 51, 87, 80, 62>>,
     <<18, 22, 37, 56, 68, 109, 103, 77>>,  <<24, 35, 55, 64, 81, 104, 113, 92>>,
     <<49, 64, 78, 87, 103, 121, 120, 101>>, <<72, 92, 95, 98, 112, 100, 103, 99>> >>

LENGTH_HEADER_BITS == 32

BlockSize == 8

CenterOffset == 128

\* position of the carrier coefficient, quantized_block[2, 1]
CarrierRow == 2

CarrierCol == 1

(***************************************************************************)
(* Arithmetic helpers                                                      *)
(***************************************************************************)
Idx == 0 .. (BlockSize - 1)

Unit == 2 ^ 20

Rescale == 2 ^ 12

Min(a, b) == IF a < b THEN a ELSE b

Max(a, b) == IF a > b THEN a ELSE b

\* np.round(a / d): nearest integer, ties to the even one (d > 0)
RoundDiv(a, d) ==
  LET q == a \div d
      r == a - q * d
  IN  IF 2 * r < d THEN q
      ELSE IF 2 * r > d THEN q + 1
      ELSE IF q % 2 = 0 THEN q ELSE q + 1

(***************************************************************************)
(* 32-bit two's complement bitwise operations of numpy's int32             *)
(***************************************************************************)
Word == 2 ^ 16

\* the unsigned 32-bit pattern of a signed value, as <<high half, low half>>
ToBits(n) == <<(n \div Word) % Word, n % Word>>

FromBits(p) == IF p[1] >= Word \div 2 THEN (p[1] - Word) * Word + p[2]
               ELSE p[1] * Word + p[2]

RECURSIVE AndBits(_, _, _)
AndBits(a, b, k) ==
  IF k = 0 THEN 0
  ELSE 2 * AndBits(a \div 2, b \div 2, k - 1) + (IF a % 2 = 1 /\ b % 2 = 1 THEN 1 ELSE 0)

RECURSIVE OrBits(_, _, _)
OrBits(a, b, k) ==
  IF k = 0 THEN 0
  ELSE 2 * OrBits(a \div 2, b \div 2, k - 1) + (IF a % 2 = 1 \/ b % 2 = 1 THEN 1 ELSE 0)

BitAnd(m, n) == FromBits(<<AndBits(ToBits(m)[1], ToBits(n)[1], 16),
                           AndBits(ToBits(m)[2], ToBits(n)[2], 16)>>)

BitOr(m, n) == FromBits(<<OrBits(ToBits(m)[1], ToBits(n)[1], 16),
                          OrBits(ToBits(m)[2], ToBits(n)[2], 16)>>)

\* ~n
BitNot(n) == FromBits(<<(Word - 1) - ToBits(n)[1], (Word - 1) - ToBits(n)[2]>>)

(***************************************************************************)
(* scipy.fftpack dct / idct with norm='ortho' on 8 points                  *)
(***************************************************************************)
\* round(2^19 * cos(k * pi / 16)), k = 0 .. 8
CosTab == <<524288, 514214, 484379, 435930, 370728, 291279, 200636, 102284, 0>>

\* round(2^20 / sqrt(8))
InvSqrt8 == 370728

Cos16(k) ==
  LET m == k % 32
      n == IF m > 16 THEN 32 - m ELSE m
  IN  IF n > 8 THEN -CosTab[(16 - n) + 1] ELSE CosTab[n + 1]

\* an 8-tuple and an 8 x 8 matrix (a tuple of rows), built from 0-based indices
Row8(F(_)) == <<F(0), F(1), F(2), F(3), F(4), F(5), F(6), F(7)>>

Mat8(F(_, _)) == Row8(LAMBDA x : Row8(LAMBDA y : F(x, y)))

\* the inner product of two 8-tuples
Dot8(a, b) == a[1] * b[1] + a[2] * b[2] + a[3] * b[3] + a[4] * b[4]
              + a[5] * b[5] + a[6] * b[6] + a[7] * b[7] + a[8] * b[8]

\* m.T
Transpose(m) == Mat8(LAMBDA x, y : m[y + 1][x + 1])

\* the orthonormal DCT-II basis a(u) * cos((2x+1) u pi / 16), times 2^20:
\* row u holds the basis vector of frequency u
Basis20 == Mat8(LAMBDA u, x : IF u = 0 THEN InvSqrt8 ELSE Cos16((2 * x + 1) * u))

\* the same basis, times 2^12
Basis12 == Mat8(LAMBDA u, x : RoundDiv(Basis20[u + 1][x + 1], 256))

\* row x holds the values at sample x of the eight basis vectors (idct)
Basis12T == Transpose(Basis12)

\* G(e), with e evaluated once
Bind(e, G(_)) == CHOOSE r \in {G(t) : t \in {e}} : TRUE

\* dct(dct(block.T, norm='ortho').T, norm='ortho') of integer samples;
\* the result is scaled by Unit.  The first pass (along the row index) is
\* kept with 8 fraction bits.
Dct2(samples) ==
  Bind(Transpose(samples), LAMBDA st :
    Bind(Mat8(LAMBDA u, y : RoundDiv(Dot8(Basis20[u + 1], st[y + 1]), Rescale)), LAMBDA t :
      Mat8(LAMBDA u, v : Dot8(Basis12[v + 1], t[u + 1]))))

\* idct(idct(coefs.T, norm='ortho').T, norm='ortho') of coefficients scaled
\* by Unit; the result is scaled by Unit
Idct2(coefs) ==
  Bind(Mat8(LAMBDA v, u : RoundDiv(coefs[u + 1][v + 1], Rescale)), LAMBDA ct :
    Bind(Mat8(LAMBDA x, v : RoundDiv(Dot8(Basis12T[x + 1], ct[v + 1]), Rescale)), LAMBDA t :
      Mat8(LAMBDA x, y : Dot8(Basis12T[y + 1], t[x + 1]))))

(***************************************************************************)
(* Quantizer and carrier bit (hide_message 89-95, reveal_message 121-122)  *)
(***************************************************************************)
\* one element of np.round(block / self.quantization_table).astype(np.int32)
QuantizeAt(value, u, v) == RoundDiv(value, quantization_table[u + 1][v + 1] * Unit)

\* one element of quantized_block * self.quantization_table
DequantizeAt(q, u, v) == q * quantization_table[u + 1][v + 1] * Unit

Quantize(block) == Mat8(LAMBDA u, v : QuantizeAt(block[u + 1][v + 1], u, v))

Dequantize(qblock) == Mat8(LAMBDA u, v : DequantizeAt(qblock[u + 1][v + 1], u, v))

\* quantized_block[2, 1] &= ~1   or   quantized_block[2, 1] |= 1
ForceParity(q, bit) == IF bit = 0 THEN BitAnd(q, BitNot(1)) ELSE BitOr(q, 1)

\* mutant of ReadParity: the remainder of a truncating division by 2
ReadParity_rem(q) == IF q < 0 THEN -((-q) % 2) ELSE q % 2

\* quantized_block[2, 1] & 1
ReadParity(q) == BitAnd(q, 1)

Carrier(qblock) == qblock[CarrierRow + 1][CarrierCol + 1]

WithCarrier(qblock, val) ==
  [qblock EXCEPT ![CarrierRow + 1] = [@ EXCEPT ![CarrierCol + 1] = val]]

\* one iteration of the embedding loop on one block
EmbedBit(block, bit) ==
  Bind(Quantize(block), LAMBDA quantized_block :
    Bind(WithCarrier(quantized_block, ForceParity(Carrier(quantized_block), bit)),
         LAMBDA forced : Dequantize(forced)))

\* the bit one iteration of a reading loop extracts from one block
ExtractBit(block) == ReadParity(Carrier(Quantize(block)))

(***************************************************************************)
(* Payload codec                                                           *)
(***************************************************************************)
RECURSIVE Flatten(_)
Flatten(ss) == IF ss = <<>> THEN <<>> ELSE Head(ss) \o Flatten(Tail(ss))

\* the UTF-8 encoding of one code point (str.encode('utf-8'))
EncodeChar(cp) ==
  IF cp < 128 THEN <<cp>>
  ELSE IF cp < 2048 THEN <<192 + (cp \div 64), 128 + (cp % 64)>>
  ELSE IF cp < 65536 THEN <<224 + (cp \div 4096), 128 + ((cp \div 64) % 64), 128 + (cp % 64)>>
  ELSE <<240 + (cp \div 262144), 128 + ((cp \div 4096) % 64),
         128 + ((cp \div 64) % 64), 128 + (cp % 64)>>

\* message.encode('utf-8'), a message being a sequence of code points
Utf8Encode(message) == Flatten([k \in 1 .. Len(message) |-> EncodeChar(message[k])])

\* format(n, '0<width>b'): most significant bit first, at least width digits
RECURSIVE FormatBits(_, _)
FormatBits(n, width) ==
  IF width <= 0 /\ n = 0 THEN <<>> ELSE Append(FormatBits(n \div 2, width - 1), n % 2)

_message_to_binary(message) ==
  LET message_bytes == Utf8Encode(message)
  IN  Flatten([k \in 1 .. Len(message_bytes) |-> FormatBits(message_bytes[k], 8)])

\* int(bits, 2) of a bit string of at most 16 bits
RECURSIVE ParseBits(_)
ParseBits(bits) ==
  IF bits = <<>> THEN 0
  ELSE 2 * ParseBits(SubSeq(bits, 1, Len(bits) - 1)) + bits[Len(bits)]

IsCont(b) == b >= 128 /\ b <= 191

\* bytes.decode('utf-8', errors='ignore'): the code points of the well
\* formed sequences; an ill-formed or truncated sequence is dropped
RECURSIVE Utf8Decode(_)
Utf8Decode(bs) ==
  IF bs = <<>> THEN <<>>
  ELSE
    LET b1   == bs[1]
        n    == Len(bs)
        need == IF b1 < 128 THEN 1
                ELSE IF b1 >= 194 /\ b1 <= 223 THEN 2
                ELSE IF b1 >= 224 /\ b1 <= 239 THEN 3
                ELSE IF b1 >= 240 /\ b1 <= 244 THEN 4
                ELSE 0
        \* the second byte is further restricted after E0, ED, F0 and F4
        ok2  == n >= 2 /\ IsCont(bs[2])
                /\ (b1 = 224 => bs[2] >= 160) /\ (b1 = 237 => bs[2] <= 159)
                /\ (b1 = 240 => bs[2] >= 144) /\ (b1 = 244 => bs[2] <= 143)
        ok3  == n >= 3 /\ IsCont(bs[3])
        ok4  == n >= 4 /\ IsCont(bs[4])
        rest(k) == Utf8Decode(SubSeq(bs, k + 1, n))
    IN  IF need = 0 THEN rest(1)
        ELSE IF need = 1 THEN <<b1>> \o rest(1)
        ELSE IF n < 2 THEN <<>>
        ELSE IF ~ok2 THEN rest(1)
        ELSE IF need = 2 THEN <<(b1 - 192) * 64 + (bs[2] - 128)>> \o rest(2)
        ELSE IF n < 3 THEN <<>>
        ELSE IF ~ok3 THEN rest(2)
        ELSE IF need = 3
          THEN <<(b1 - 224) * 4096 + (bs[2] - 128) * 64 + (bs[3] - 128)>> \o rest(3)
        ELSE IF n < 4 THEN <<>>
        ELSE IF ~ok4 THEN rest(3)
        ELSE <<(b1 - 240) * 262144 + (bs[2] - 128) * 4096
               + (bs[3] - 128) * 64 + (bs[4] - 128)>> \o rest(4)

\* the text a reveal returns, and the None it returns instead
Text(cps) == [tag |-> "str", text |-> cps]

None == [tag |-> "None", text |-> <<>>]

_binary_to_message(binary_message) ==
  LET byte_values == [k \in 1 .. (Len(binary_message) \div 8) |->
                        ParseBits(SubSeq(binary_message, 8 * (k - 1) + 1, 8 * k))]
  IN  Text(Utf8Decode(byte_values))

(***************************************************************************)
(* Rasters.  A raster is [readable, h, w, px]: px[r][c] (1-based) is the   *)
(* <<B, G, R>> sample of row r - 1, column c - 1.  A plane is a sequence   *)
(* of rows of 8-bit samples.                                               *)
(***************************************************************************)
\* what cv2.imread gives for a path that has no readable image
NoFile == [readable |-> FALSE, h |-> 0, w |-> 0, px |-> <<>>]

Raster(h, w, px) == [readable |-> TRUE, h |-> h, w |-> w, px |-> px]

Saturate(x) == Min(255, Max(0, x))

\* cv2.cvtColor(., COLOR_BGR2YCrCb) on one 8-bit sample: 14-bit fixed point
BGR2YCrCb(p) ==
  LET y == (1868 * p[1] + 9617 * p[2] + 4899 * p[3] + 8192) \div 16384
  IN  << y,
         Saturate(((p[3] - y) * 11682 + 128 * 16384 + 8192) \div 16384),
         Saturate(((p[1] - y) * 9241 + 128 * 16384 + 8192) \div 16384) >>

\* cv2.cvtColor(., COLOR_YCrCb2BGR) on one 8-bit sample <<Y, Cr, Cb>>
YCrCb2BGR(p) ==
  << Saturate(p[1] + ((p[3] - 128) * 29049 + 8192) \div 16384),
     Saturate(p[1] + ((p[3] - 128) * (-5636) + (p[2] - 128) * (-11698) + 8192) \div 16384),
     Saturate(p[1] + ((p[2] - 128) * 22987 + 8192) \div 16384) >>

\* np.pad(img, ((0, h_pad), (0, w_pad), (0, 0)), constant_values=0)
_pad_image(img) ==
  LET h_orig == img.h
      w_orig == img.w
      h_pad  == (BlockSize - (h_orig % BlockSize)) % BlockSize
      w_pad  == (BlockSize - (w_orig % BlockSize)) % BlockSize
  IN  Raster(h_orig + h_pad, w_orig + w_pad,
             [r \in 1 .. (h_orig + h_pad) |-> [c \in 1 .. (w_orig + w_pad) |->
                IF r <= h_orig /\ c <= w_orig THEN img.px[r][c] ELSE <<0, 0, 0>>]])

\* cv2.split(cv2.cvtColor(padded_img, cv2.COLOR_BGR2YCrCb))[k - 1]
Channel(img, k) ==
  [r \in 1 .. img.h |-> [c \in 1 .. img.w |-> BGR2YCrCb(img.px[r][c])[k]]]

\* the number of blocks the two loops of _apply_dct visit
BlockCount(h, w) == ((h + BlockSize - 1) \div BlockSize) * ((w + BlockSize - 1) \div BlockSize)

\* the top left corner <<i, j>> of the block with 0-based index k:
\* for i in range(0, h, 8): for j in range(0, w, 8)
BlockOrigin(k, w) ==
  LET per_row == (w + BlockSize - 1) \div BlockSize
  IN  <<BlockSize * (k \div per_row), BlockSize * (k % per_row)>>

\* returns <<dct_blocks, h, w>>
_apply_dct(image_channel, h, w) ==
  << [n \in 1 .. BlockCount(h, w) |->
        LET o == BlockOrigin(n - 1, w)
        IN  Dct2(Mat8(LAMBDA x, y : image_channel[o[1] + x + 1][o[2] + y + 1] - CenterOffset))],
     h, w >>

\* np.clip(_apply_idct(dct_blocks, h, w), 0, 255).astype(np.uint8):
\* each block is written at its origin, 128 is added, the sample is clipped
\* and its fraction dropped
_apply_idct(dct_blocks, h, w) ==
  Bind([n \in 1 .. Len(dct_blocks) |-> Idct2(dct_blocks[n])], LAMBDA rec :
    LET per_row == w \div BlockSize
    IN  [r \in 1 .. h |-> [c \in 1 .. w |->
          LET n == ((r - 1) \div BlockSize) * per_row + ((c - 1) \div BlockSize) + 1
              v == rec[n][((r - 1) % BlockSize) + 1][((c - 1) % BlockSize) + 1]
                   + CenterOffset * Unit
          IN  Min(255 * Unit, Max(0, v)) \div Unit]])

\* mutant of MergeAndCrop: the padded raster is written
MergeAndCrop_nocrop(y, cr, cb, h_orig, w_orig) ==
  Raster(Len(y), Len(y[1]),
         [r \in 1 .. Len(y) |-> [c \in 1 .. Len(y[1]) |->
            YCrCb2BGR(<<y[r][c], cr[r][c], cb[r][c]>>)]])

\* cv2.cvtColor(cv2.merge([y, cr, cb]), COLOR_YCrCb2BGR)[:h_orig, :w_orig, :]
MergeAndCrop(y, cr, cb, h_orig, w_orig) ==
  Raster(h_orig, w_orig,
         [r \in 1 .. h_orig |-> [c \in 1 .. w_orig |->
            YCrCb2BGR(<<y[r][c], cr[r][c], cb[r][c]>>)]])

(***************************************************************************)
(* Inputs                                                                  *)
(***************************************************************************)
\* the largest number of characters of a message
MaxChars == 1

\* the largest number of hide_message calls in one run
MaxHides == 1

\* the quantized carrier values of the carrier specification: -MaxQ .. MaxQ
MaxQ == 64

\* "A" (one byte in UTF-8) and "e acute" (two bytes)
Alphabet == {65, 233}

Messages == UNION {[1 .. n -> Alphabet] : n \in 0 .. MaxChars}

Paths == {"cover.png", "stego.png", "missing.png"}

\* 8 x 8 tiles: hi inside the rectangle of rows r0..r1 and columns c0..c1,
\* lo outside
Tile(lo, hi, r0, r1, c0, c1) ==
  [lo |-> lo, hi |-> hi, r0 |-> r0, r1 |-> r1, c0 |-> c0, c1 |-> c1]

Black == Tile(0, 0, 0, 0, 0, 0)

Gray == Tile(128, 128, 0, 0, 0, 0)

\* a white box on black: saturated samples
Box == Tile(0, 255, 1, 5, 0, 2)

\* a white mark on gray: its carrier coefficient quantizes to -7
Mark == Tile(128, 255, 3, 4, 1, 3)

\* the gray-level raster of h x w samples tiled with t from the top left
Cover(h, w, t) ==
  Raster(h, w, [r \in 1 .. h |-> [c \in 1 .. w |->
    LET x == (r - 1) % BlockSize
        y == (c - 1) % BlockSize
        g == IF x >= t.r0 /\ x <= t.r1 /\ y >= t.c0 /\ y <= t.c1 THEN t.hi ELSE t.lo
    IN  <<g, g, g>>]])

Covers ==
  { Cover(8, 8, Black),    Cover(24, 104, Gray), Cover(32, 64, Gray),
    Cover(40, 64, Gray),   Cover(40, 64, Black), Cover(34, 60, Gray),
    Cover(32, 64, Box),    Cover(32, 64, Mark),  Cover(48, 64, Gray) }

(***************************************************************************)
(* State                                                                   *)
(***************************************************************************)
VARIABLES
  disk,       \* path -> raster: the image files
  pc,         \* the position of the running call, "idle" between calls
  outcome,    \* how the last call ended
  hides,      \* the number of hide_message calls so far
  hframe,     \* the local variables of hide_message
  rframe,     \* the local variables of reveal_message
  embedded,   \* history: path -> the message the last completed hide wrote there
  touched,    \* history: the indices of the blocks the running hide overwrote
  read_log,   \* history: the indices of the blocks the running reveal read
  carrier     \* the carrier specification: one quantized value and one bit

vars == <<disk, pc, outcome, hides, hframe, rframe, embedded, touched, read_log, carrier>>

NoHide ==
  [image_path |-> "", message |-> <<>>, output_path |-> "", h_orig |-> 0, w_orig |-> 0,
   cr_channel |-> <<>>, cb_channel |-> <<>>, full_binary_payload |-> <<>>,
   dct_blocks |-> <<>>, h |-> 0, w |-> 0, i |-> 0, payload_index |-> 0]

NoReveal ==
  [image_path |-> "", dct_blocks |-> <<>>, length_binary |-> <<>>,
   message_length |-> <<0, 0>>, binary_message |-> <<>>]

NoOutcome ==
  [op |-> "none", image_path |-> "", kind |-> "none", value |-> None, exc |-> "",
   text |-> <<>>, image_capacity_bytes |-> 0, message_byte_count |-> 0, block_count |-> 0]

Running(op, image_path) ==
  [NoOutcome EXCEPT !.op = op, !.image_path = image_path, !.kind = "running"]

Returned(op, image_path, value, block_count) ==
  [NoOutcome EXCEPT !.op = op, !.image_path = image_path, !.kind = "returned",
                    !.value = value, !.block_count = block_count]

Raised(op, image_path, exc, text) ==
  [NoOutcome EXCEPT !.op = op, !.image_path = image_path, !.kind = "raised",
                    !.exc = exc, !.text = text]

NoCarrier == [stage |-> "off", q |-> 0, bit |-> 0, forced |-> 0, coef |-> 0, read |-> 0]

NotEmbedded == [has |-> FALSE, message |-> <<>>]

Init ==
  /\ \E cover \in Covers :
       disk = [p \in Paths |-> IF p = "cover.png" THEN cover ELSE NoFile]
  /\ pc = "idle"
  /\ outcome = NoOutcome
  /\ hides = 0
  /\ hframe = NoHide
  /\ rframe = NoReveal
  /\ embedded = [p \in Paths |-> NotEmbedded]
  /\ touched = {}
  /\ read_log = <<>>
  /\ carrier = NoCarrier

(***************************************************************************)
(* hide_message                                                            *)
(***************************************************************************)
\* mutant of PayloadTooLarge: the comparison is off by one
PayloadTooLarge_ge(full_binary_payload, dct_blocks) ==
  Len(full_binary_payload) >= Len(dct_blocks)

\* line 71: if len(full_binary_payload) > len(dct_blocks)
PayloadTooLarge(full_binary_payload, dct_blocks) ==
  Len(full_binary_payload) > Len(dct_blocks)

\* mutant of ImageCapacityBytes: the header is not subtracted
ImageCapacityBytes_noheader(dct_blocks) == Len(dct_blocks) \div 8

\* line 77: (len(dct_blocks) - self.LENGTH_HEADER_BITS) // 8
ImageCapacityBytes(dct_blocks) == (Len(dct_blocks) - LENGTH_HEADER_BITS) \div 8

\* line 73: len(message.encode('utf-8'))
MessageByteCount(message) == Len(Utf8Encode(message))

\* mutant of IsNone: the result of cv2.imread is not checked
IsNone_never(img) == FALSE

\* lines 54 and 109: if img is None
IsNone(img) == ~img.readable

\* lines 52-68: the call, up to the forward transform
hide_message(image_path, message, output_path) ==
  /\ pc = "idle"
  /\ hides < MaxHides
  /\ hides' = hides + 1
  /\ touched' = {}
  /\ LET img == disk[image_path]
     IN  IF IsNone(img)
         THEN /\ outcome' = Raised("hide", image_path, "FileNotFoundError",
                                   <<"Image not found.">>)
              /\ pc' = "idle"
              /\ hframe' = NoHide
         ELSE LET padded_img == _pad_image(img)
                  binary_message == _message_to_binary(message)
                  message_bit_length == Len(binary_message)
                  length_binary == FormatBits(message_bit_length, LENGTH_HEADER_BITS)
                  transformed == _apply_dct(Channel(padded_img, 1), padded_img.h, padded_img.w)
              IN  /\ hframe' = [image_path |-> image_path,
                                message |-> message,
                                output_path |-> output_path,
                                h_orig |-> img.h,
                                w_orig |-> img.w,
                                cr_channel |-> Channel(padded_img, 2),
                                cb_channel |-> Channel(padded_img, 3),
                                full_binary_payload |-> length_binary \o binary_message,
                                dct_blocks |-> transformed[1],
                                h |-> transformed[2],
                                w |-> transformed[3],
                                i |-> 0,
                                payload_index |-> 0]
                  /\ outcome' = Running("hide", image_path)
                  /\ pc' = "hide_check"
  /\ UNCHANGED <<disk, rframe, embedded, read_log, carrier>>

\* mutant of hide_check: the capacity is checked inside the loop, when the
\* blocks run out
hide_check_in_loop ==
  /\ pc = "hide_check"
  /\ IF PayloadTooLarge(hframe.full_binary_payload, hframe.dct_blocks)
     THEN /\ outcome' = [Raised("hide", hframe.image_path, "ValueError",
                                <<"Message is too large for this image.",
                                  "Image Capacity:", "Your Message's Size:">>)
                           EXCEPT !.image_capacity_bytes = ImageCapacityBytes(hframe.dct_blocks),
                                  !.message_byte_count = MessageByteCount(hframe.message),
                                  !.block_count = Len(hframe.dct_blocks)]
          /\ pc' = "idle"
          /\ hframe' = NoHide
          /\ touched' = 0 .. (Len(hframe.dct_blocks) - 1)
     ELSE /\ pc' = "hide_embed"
          /\ UNCHANGED <<outcome, hframe, touched>>
  /\ UNCHANGED <<disk, hides, rframe, embedded, read_log, carrier>>

\* lines 71-87: the capacity check
hide_check ==
  /\ pc = "hide_check"
  /\ IF PayloadTooLarge(hframe.full_binary_payload, hframe.dct_blocks)
     THEN /\ outcome' = [Raised("hide", hframe.image_path, "ValueError",
                                <<"Message is too large for this image.",
                                  "Image Capacity:", "Your Message's Size:">>)
                           EXCEPT !.image_capacity_bytes = ImageCapacityBytes(hframe.dct_blocks),
                                  !.message_byte_count = MessageByteCount(hframe.message),
                                  !.block_count = Len(hframe.dct_blocks)]
          /\ pc' = "idle"
          /\ hframe' = NoHide
     ELSE /\ pc' = "hide_embed"
          /\ UNCHANGED <<outcome, hframe>>
  /\ UNCHANGED <<disk, hides, rframe, embedded, touched, read_log, carrier>>

\* the block index and the payload index one iteration of the loop uses
EmbedTarget(i, payload_index) == [block |-> i, bit |-> payload_index]

\* lines 88-95: one iteration of the embedding loop
hide_embed ==
  /\ pc = "hide_embed"
  /\ hframe.i < Len(hframe.full_binary_payload)
  /\ LET t == EmbedTarget(hframe.i, hframe.payload_index)
     IN  /\ hframe' = [hframe EXCEPT
                         !.dct_blocks[t.block + 1] =
                            EmbedBit(@, hframe.full_binary_payload[t.bit + 1]),
                         !.payload_index = @ + 1,
                         !.i = @ + 1]
         /\ touched' = touched \cup {t.block}
  /\ UNCHANGED <<disk, pc, outcome, hides, rframe, embedded, read_log, carrier>>

\* lines 97-105: inverse transform, merge, crop and write
hide_write ==
  /\ pc = "hide_embed"
  /\ hframe.i = Len(hframe.full_binary_payload)
  /\ \E reconstructed_y \in {_apply_idct(hframe.dct_blocks, hframe.h, hframe.w)} :
       disk' = [disk EXCEPT ![hframe.output_path] =
                  MergeAndCrop(reconstructed_y, hframe.cr_channel, hframe.cb_channel,
                               hframe.h_orig, hframe.w_orig)]
  /\ embedded' = [embedded EXCEPT ![hframe.output_path] =
                    [has |-> TRUE, message |-> hframe.message]]
  /\ outcome' = Returned("hide", hframe.image_path, None, Len(hframe.dct_blocks))
  /\ pc' = "idle"
  /\ hframe' = NoHide
  /\ UNCHANGED <<hides, rframe, touched, read_log, carrier>>

(***************************************************************************)
(* reveal_message                                                          *)
(***************************************************************************)
\* line 117: if len(dct_blocks) < self.LENGTH_HEADER_BITS
HeaderMissing(dct_blocks) == Len(dct_blocks) < LENGTH_HEADER_BITS

\* int(length_binary, 2), as <<high, low>> halves in base 2^16: the value
\* is high * 2^16 + low
ParseLength(length_binary) ==
  LET n == Len(length_binary)
  IN  IF n <= 16 THEN <<0, ParseBits(length_binary)>>
      ELSE <<ParseBits(SubSeq(length_binary, 1, n - 16)),
             ParseBits(SubSeq(length_binary, n - 15, n))>>

\* mutant of LengthTooLarge: the comparison is off by one
LengthTooLarge_ge(message_length, dct_blocks) ==
  \/ message_length[1] > 0
  \/ message_length[2] >= Len(dct_blocks) - LENGTH_HEADER_BITS

\* line 127: if message_length > len(dct_blocks) - self.LENGTH_HEADER_BITS
LengthTooLarge(message_length, dct_blocks) ==
  \/ message_length[1] > 0
  \/ message_length[2] > Len(dct_blocks) - LENGTH_HEADER_BITS

\* lines 107-119: the call, up to the forward transform and the first guard
reveal_message(image_path) ==
  /\ pc = "idle"
  /\ read_log' = <<>>
  /\ LET stego_img == disk[image_path]
     IN  IF IsNone(stego_img)
         THEN /\ outcome' = Raised("reveal", image_path, "FileNotFoundError",
                                   <<"Stego image not found.">>)
              /\ pc' = "idle"
              /\ rframe' = NoReveal
         ELSE LET padded_img == _pad_image(stego_img)
              IN  \E dct_blocks \in
                       {_apply_dct(Channel(padded_img, 1), padded_img.h, padded_img.w)[1]} :
                    IF HeaderMissing(dct_blocks)
                    THEN /\ outcome' = Returned("reveal", image_path, None,
                                                Len(dct_blocks))
                         /\ pc' = "idle"
                         /\ rframe' = NoReveal
                    ELSE /\ outcome' = Running("reveal", image_path)
                         /\ pc' = "reveal_header"
                         /\ rframe' = [NoReveal EXCEPT !.image_path = image_path,
                                                       !.dct_blocks = dct_blocks]
  /\ UNCHANGED <<disk, hides, hframe, embedded, touched, carrier>>

\* lines 120-122: one iteration of the header loop
reveal_header ==
  /\ pc = "reveal_header"
  /\ Len(rframe.length_binary) < LENGTH_HEADER_BITS
  /\ LET i == Len(rframe.length_binary)
     IN  /\ rframe' = [rframe EXCEPT
                         !.length_binary = Append(@, ExtractBit(rframe.dct_blocks[i + 1]))]
         /\ read_log' = Append(read_log, i)
  /\ UNCHANGED <<disk, pc, outcome, hides, hframe, embedded, touched, carrier>>

\* lines 124-129: parse the header, second guard
reveal_length ==
  /\ pc = "reveal_header"
  /\ Len(rframe.length_binary) = LENGTH_HEADER_BITS
  /\ LET message_length == ParseLength(rframe.length_binary)
     IN  IF LengthTooLarge(message_length, rframe.dct_blocks)
         THEN /\ outcome' = Returned("reveal", rframe.image_path, None,
                                     Len(rframe.dct_blocks))
              /\ pc' = "idle"
              /\ rframe' = NoReveal
         ELSE /\ pc' = "reveal_body"
              /\ rframe' = [rframe EXCEPT !.message_length = message_length]
              /\ UNCHANGED outcome
  /\ UNCHANGED <<disk, hides, hframe, embedded, touched, read_log, carrier>>

\* mutant of BodyBlockIndex: the header blocks are not skipped
BodyBlockIndex_noheader(i) == i

\* line 131: block_index = self.LENGTH_HEADER_BITS + i
BodyBlockIndex(i) == LENGTH_HEADER_BITS + i

\* lines 130-133: one iteration of the body loop
reveal_body ==
  /\ pc = "reveal_body"
  /\ Len(rframe.binary_message) < rframe.message_length[2]
  /\ LET i == Len(rframe.binary_message)
         block_index == BodyBlockIndex(i)
     IN  /\ rframe' = [rframe EXCEPT
                         !.binary_message =
                            Append(@, ExtractBit(rframe.dct_blocks[block_index + 1]))]
         /\ read_log' = Append(read_log, block_index)
  /\ UNCHANGED <<disk, pc, outcome, hides, hframe, embedded, touched, carrier>>

\* line 135: return self._binary_to_message(binary_message)
reveal_return ==
  /\ pc = "reveal_body"
  /\ Len(rframe.binary_message) = rframe.message_length[2]
  /\ outcome' = [Returned("reveal", rframe.image_path,
                          _binary_to_message(rframe.binary_message),
                          Len(rframe.dct_blocks))
                   EXCEPT !.message_byte_count = rframe.message_length[2]]
  /\ pc' = "idle"
  /\ rframe' = NoReveal
  /\ UNCHANGED <<disk, hides, hframe, embedded, touched, read_log, carrier>>

Next ==
  \/ \E image_path \in {"cover.png", "missing.png"}, message \in Messages :
       hide_message(image_path, message, "stego.png")
  \/ hide_check
  \/ hide_embed
  \/ hide_write
  \/ \E image_path \in Paths : reveal_message(image_path)
  \/ reveal_header
  \/ reveal_length
  \/ reveal_body
  \/ reveal_return

Spec == Init /\ [][Next]_vars

(***************************************************************************)
(* The carrier specification: the bit write of hide_message (lines 89-95)  *)
(* followed by the bit read of reveal_message (lines 121-122) on one       *)
(* quantized carrier value, without the pixel round trip in between.       *)
(***************************************************************************)
CarrierInit ==
  /\ disk = [p \in Paths |-> NoFile]
  /\ pc = "carrier"
  /\ outcome = NoOutcome
  /\ hides = 0
  /\ hframe = NoHide
  /\ rframe = NoReveal
  /\ embedded = [p \in Paths |-> NotEmbedded]
  /\ touched = {}
  /\ read_log = <<>>
  /\ \E q \in (-MaxQ) .. MaxQ, bit \in {0, 1} :
       carrier = [NoCarrier EXCEPT !.stage = "quantized", !.q = q, !.bit = bit]

CarrierFrame == <<disk, pc, outcome, hides, hframe, rframe, embedded, touched, read_log>>

\* lines 90-93
carrier_force ==
  /\ carrier.stage = "quantized"
  /\ carrier' = [carrier EXCEPT !.stage = "forced",
                                !.forced = ForceParity(carrier.q, carrier.bit)]
  /\ UNCHANGED CarrierFrame

\* line 95
carrier_dequantize ==
  /\ carrier.stage = "forced"
  /\ carrier' = [carrier EXCEPT !.stage = "dequantized",
                                !.coef = DequantizeAt(carrier.forced, CarrierRow, CarrierCol)]
  /\ UNCHANGED CarrierFrame

\* lines 121-122
carrier_read ==
  /\ carrier.stage = "dequantized"
  /\ carrier' = [carrier EXCEPT !.stage = "read",
                   !.read = ReadParity(QuantizeAt(carrier.coef, CarrierRow, CarrierCol))]
  /\ UNCHANGED CarrierFrame

CarrierNext == carrier_force \/ carrier_dequantize \/ carrier_read

SpecCarrier == CarrierInit /\ [][CarrierNext]_vars

(***************************************************************************)
(* Properties                                                              *)
(***************************************************************************)
\* the number of bits of the full payload of a message: 32 header bits and
\* 8 bits per UTF-8 byte, the bytes counted from the code points
Utf8Length(message) ==
  LET size(cp) == IF cp < 128 THEN 1 ELSE IF cp < 2048 THEN 2 ELSE IF cp < 65536 THEN 3 ELSE 4
      RECURSIVE total(_)
      total(k) == IF k = 0 THEN 0 ELSE total(k - 1) + size(message[k])
  IN  total(Len(message))

PayloadBits(message) == 32 + 8 * Utf8Length(message)

\* the number of 8 x 8 blocks of a raster once padded
BlocksOf(img) == ((img.h + 7) \div 8) * ((img.w + 7) \div 8)

RevealReturned == outcome.op = "reveal" /\ outcome.kind = "returned"

HideReturned == outcome.op = "hide" /\ outcome.kind = "returned"

CapacityError == outcome.op = "hide" /\ outcome.kind = "raised" /\ outcome.exc = "ValueError"

LoadError == outcome.kind = "raised" /\ outcome.exc = "FileNotFoundError"

\* C1: round trip - a reveal of the image a completed hide wrote returns
\* exactly the message that was hidden.
C1_RoundTrip ==
  (RevealReturned /\ embedded[outcome.image_path].has)
    => outcome.value = Text(embedded[outcome.image_path].message)

\* C2: capacity boundary - the capacity check lets the call proceed exactly
\* when the full payload (32 + 8 bits per UTF-8 byte) is at most the block
\* count of the padded cover, equality included, and raises the capacity
\* error otherwise; a call that passed the check ends by returning.
C2_CapacityBoundary ==
  [][ /\ pc = "hide_check" =>
          LET fits == PayloadBits(hframe.message) <= BlocksOf(disk[hframe.image_path])
          IN  /\ fits => pc' = "hide_embed" /\ outcome'.kind = "running"
              /\ ~fits => pc' = "idle" /\ outcome'.kind = "raised"
                          /\ outcome'.exc = "ValueError"
      /\ (pc = "hide_embed" /\ pc' = "idle") => outcome'.kind = "returned" ]_vars

\* C2 witness: a hide whose payload equals the block count exactly returned
C2_Witness ==
  /\ HideReturned
  /\ embedded["stego.png"].has
  /\ PayloadBits(embedded["stego.png"].message) = outcome.block_count
  /\ outcome.block_count = BlocksOf(disk["cover.png"])

\* C3: a capacity error is raised before any block is modified: the blocks
\* are still the transform of the cover, none was overwritten, and no file
\* was written.
C3_RejectBeforeModify ==
  [][ (outcome'.op = "hide" /\ outcome'.kind = "raised" /\ outcome'.exc = "ValueError"
       /\ outcome.kind = "running")
      => /\ disk' = disk
         /\ touched = {} /\ touched' = {}
         /\ hframe.i = 0
         /\ LET padded == _pad_image(disk[hframe.image_path])
            IN  hframe.dct_blocks = _apply_dct(Channel(padded, 1), padded.h, padded.w)[1] ]_vars

\* C3 witness: a capacity error on an image that has blocks to modify
C3_Witness ==
  /\ CapacityError
  /\ outcome.block_count >= LENGTH_HEADER_BITS
  /\ ~disk["stego.png"].readable

\* C4: reveal raises nothing on a readable image; it returns None exactly
\* when the image has fewer than 32 blocks or the 32 header bits, read as a
\* binary number L, exceed block count - 32; otherwise it has read exactly
\* L body bits and returns text.
C4_RevealGuards ==
  [][ (outcome'.op = "reveal" /\ outcome'.kind \in {"returned", "raised"}
       /\ outcome' # outcome)
      => LET n == BlocksOf(disk[outcome'.image_path])
             header == rframe.length_binary
             fit == {m \in 0 .. (n - LENGTH_HEADER_BITS) : FormatBits(m, 32) = header}
         IN  /\ outcome'.kind = "raised" => ~disk[outcome'.image_path].readable
             /\ outcome'.kind = "returned" =>
                  IF n < LENGTH_HEADER_BITS \/ (pc = "reveal_header" /\ fit = {})
                  THEN outcome'.value = None
                  ELSE /\ outcome'.value.tag = "str"
                       /\ pc = "reveal_body"
                       /\ fit = {Len(rframe.binary_message)}
                       /\ Len(read_log) = LENGTH_HEADER_BITS + Len(rframe.binary_message) ]_vars

\* C4 witness: None because the header value exceeds the remaining blocks
C4_Witness ==
  /\ RevealReturned
  /\ outcome.value = None
  /\ outcome.block_count >= LENGTH_HEADER_BITS

\* C5: zero-length message - a reveal of the image a completed hide of the
\* empty string wrote returns the empty string (and not None).
C5_EmptyRoundTrip ==
  (RevealReturned /\ embedded[outcome.image_path].has
     /\ embedded[outcome.image_path].message = <<>>)
    => outcome.value = Text(<<>>)

\* C6: the capacity error reports the byte capacity floor((blocks - 32) / 8)
\* and the UTF-8 byte count of the message; the capacity is zero or negative
\* when the image has fewer than 32 blocks.
C6_CapacityReport ==
  [][ (outcome'.op = "hide" /\ outcome'.kind = "raised" /\ outcome'.exc = "ValueError"
       /\ outcome.kind = "running")
      => LET n == BlocksOf(disk[hframe.image_path])
             cap == outcome'.image_capacity_bytes
         IN  /\ 8 * cap <= n - 32 /\ n - 32 < 8 * cap + 8
             /\ outcome'.message_byte_count = Utf8Length(hframe.message)
             /\ n < 32 => cap <= 0 ]_vars

\* C6 witness: a capacity error on an image with fewer than 32 blocks, for a
\* message whose byte count differs from its character count
C6_Witness ==
  /\ CapacityError
  /\ outcome.block_count < LENGTH_HEADER_BITS
  /\ outcome.image_capacity_bytes < 0
  /\ outcome.message_byte_count = 2

\* C7 (as stated): a load error carries the path of the image that could
\* not be loaded.
C7_LoadErrorHasPath ==
  LoadError => \E k \in DOMAIN outcome.text : outcome.text[k] = outcome.image_path

\* C7 (amended): a call on a path without a readable image, and no other
\* call, raises FileNotFoundError; its text is the fixed sentence of the
\* operation and not the path; no file is written.
C7_LoadError ==
  [][ (pc = "idle" /\ outcome'.op \in {"hide", "reveal"})
      => LET missing == ~disk[outcome'.image_path].readable
             raised == outcome'.kind = "raised" /\ outcome'.exc = "FileNotFoundError"
         IN  /\ missing <=> raised
             /\ raised => /\ disk' = disk
                          /\ pc' = "idle"
                          /\ outcome'.text = IF outcome'.op = "hide"
                                             THEN <<"Image not found.">>
                                             ELSE <<"Stego image not found.">> ]_vars

\* C7 witness: hide_message failed to load its cover
C7_Witness == LoadError /\ outcome.op = "hide" /\ ~disk["stego.png"].readable

\* C8 (as stated): for a cover of any dimensions hide_message completes
\* without error and its output has the dimensions of the cover.
C8_AnyDimensions ==
  (outcome.op = "hide" /\ outcome.kind \in {"returned", "raised"}
     /\ disk[outcome.image_path].readable)
    => /\ outcome.kind = "returned"
       /\ disk["stego.png"].h = disk[outcome.image_path].h
       /\ disk["stego.png"].w = disk[outcome.image_path].w

\* C8 (amended): the cover is extended at the bottom and right only, to the
\* smallest multiples of 8; when the full payload fits the block count of
\* the padded cover, hide_message completes without error and its output
\* has the dimensions of the cover, not the padded ones.
C8_PaddingTransparency ==
  [][ /\ pc = "hide_check" =>
          LET img == disk[hframe.image_path]
              padded == _pad_image(img)
          IN  /\ hframe.h = padded.h /\ hframe.w = padded.w
              /\ padded.h % 8 = 0 /\ padded.h >= img.h /\ padded.h - img.h < 8
              /\ padded.w % 8 = 0 /\ padded.w >= img.w /\ padded.w - img.w < 8
              /\ \A r \in 1 .. padded.h, c \in 1 .. padded.w :
                   padded.px[r][c] = IF r <= img.h /\ c <= img.w THEN img.px[r][c]
                                     ELSE <<0, 0, 0>>
              /\ PayloadBits(hframe.message) <= BlocksOf(img) => outcome'.kind = "running"
      /\ pc = "hide_embed" =>
          /\ outcome'.kind \in {"running", "returned"}
          /\ outcome'.kind = "returned" =>
               /\ disk'["stego.png"].readable
               /\ disk'["stego.png"].h = disk[hframe.image_path].h
               /\ disk'["stego.png"].w = disk[hframe.image_path].w ]_vars

\* C8 witness: a completed hide on a cover whose dimensions are not
\* multiples of 8
C8_Witness ==
  /\ HideReturned
  /\ disk["cover.png"].h % 8 # 0 /\ disk["cover.png"].w % 8 # 0
  /\ disk["stego.png"].h = disk["cover.png"].h
  /\ disk["stego.png"].w = disk["cover.png"].w

Abs(x) == IF x < 0 THEN -x ELSE x

\* C9: carrier write/read agreement - forcing the parity of a quantized
\* value q (negative ones included) to a bit, multiplying by the table
\* entry, dividing by it with rounding and reading the low bit gives the
\* bit back, and the write moves q by at most 1.
C9_CarrierAgreement ==
  /\ carrier.stage \in {"forced", "dequantized", "read"} =>
       /\ Abs(carrier.forced - carrier.q) <= 1
       /\ (carrier.forced - carrier.bit) % 2 = 0
  /\ carrier.stage = "read" => carrier.read = carrier.bit

\* C9 witness: a negative odd value whose bit was cleared, and read back
C9_Witness ==
  /\ carrier.stage = "read"
  /\ carrier.q < 0 /\ carrier.q % 2 = 1 /\ carrier.bit = 0
  /\ carrier.forced = carrier.q - 1

\* C10: block/bit index agreement - the embedding loop has put payload bit
\* k into block k for every k below its index and has overwritten no other
\* block; the reading loops take header bit k from block k and body bit j
\* from block 32 + j.
C10_IndexAgreement ==
  /\ [](pc = "hide_embed" =>
          /\ touched = 0 .. (hframe.i - 1)
          /\ hframe.i <= Len(hframe.full_binary_payload)
          /\ \A k \in touched :
               ExtractBit(hframe.dct_blocks[k + 1]) = hframe.full_binary_payload[k + 1])
  /\ [](pc \in {"reveal_header", "reveal_body"} =>
          LET bits == rframe.length_binary \o rframe.binary_message
          IN  /\ Len(read_log) = Len(bits)
              /\ Len(rframe.length_binary) < LENGTH_HEADER_BITS => rframe.binary_message = <<>>
              /\ \A k \in 1 .. Len(bits) :
                   /\ read_log[k] = k - 1
                   /\ bits[k] = ExtractBit(rframe.dct_blocks[k]))
  /\ [][pc = "hide_embed" =>
          \A n \in 1 .. Len(hframe.dct_blocks) :
            (n - 1) \notin (touched' \ touched) =>
               (pc' = "idle" \/ hframe'.dct_blocks[n] = hframe.dct_blocks[n])]_vars

\* C10 witness: the body loop has read a bit, after a hide that embedded a
\* body
C10_Witness ==
  /\ pc = "reveal_body"
  /\ Len(rframe.binary_message) > 0
  /\ embedded[rframe.image_path].has
  /\ embedded[rframe.image_path].message # <<>>

====
